---- MODULE Spec2Model ----
(***************************************************************************)
(* Model of drivers/watchdog/virtio_wdt.c: the virtio watchdog driver.     *)
(*                                                                         *)
(* State: the virtio device (features, config space, status), the session  *)
(* (struct virtio_wdt) allocated by virtwdt_probe, its single "event"      *)
(* virtqueue, the watchdog registration, and the threads that call the     *)
(* watchdog operations (start, stop, ping, set_timeout).                   *)
(*                                                                         *)
(* Each virtqueue call (add_outbuf, kick, get_buf) is one atomic step; the  *)
(* callers' steps interleave freely, since send_event takes no lock.       *)
(***************************************************************************)
EXTENDS Integers, Sequences, FiniteSets, TLC

(* ---- program constants (virtio_wdt.c:17-19) ---- *)
VIRTIO_WATCHDOG_HEARTBEAT_TIMEOUT == 30
VIRTIO_WATCHDOG_HEARTBEAT_TIMEOUT_MIN == 1
VIRTIO_WATCHDOG_HEARTBEAT_TIMEOUT_MAX == 600

(* ---- bounds of the model ---- *)
\* largest number of descriptors the device may give the event virtqueue
QueueSize == 2
\* the threads that may call the watchdog operations concurrently
Callers == {"t1", "t2"}

\* event types of struct virtio_watchdog_event, as passed to send_event
EventTypes == {"HEARTBEAT", "ENABLE", "DISABLE"}

\* values a caller passes to set_timeout: below, inside and above [1, 600]
TimeoutInputs == {0, 1, 600, 601, 900}

\* values of the module parameter "timeout" (0: not supplied)
ModuleTimeouts == {0, 45, 900}

VARIABLES
    has_feature,    \* the device offers VIRTIO_F_VERSION_1
    config_get,     \* vdev->config->get is set
    module_timeout, \* module parameter "timeout" (line 21)
    probe_pc,       \* position of virtwdt_probe / virtwdt_remove
    probe_ret,      \* return value of virtwdt_probe ("none" before it returns)
    session,        \* the struct virtio_wdt memory: "none", "live", "freed"
    priv,           \* vdev->priv: "null" or "vwdt" (the address kzalloc returned)
    vq_exists,      \* the event virtqueue exists (found and not deleted)
    vq_size,        \* number of descriptors of the event virtqueue (0: no queue)
    registered,     \* the watchdog device is registered with the watchdog core
    dev_ready,      \* DRIVER_OK is set in the device status
    vwdt_timeout,   \* vwdt->timeout
    wdd,            \* vwdt->wdd: min_timeout, max_timeout, timeout
    cfg_timeout,    \* the timeout field of the device's config space
    avail,          \* buffers added to the vq and not yet used by the device
    used,           \* buffers the device returned, not yet taken by get_buf
    notified,       \* the device has been kicked and has work to look at
    irq_pending,    \* a used-buffer interrupt has not been delivered yet
    pc,             \* per caller: "idle", "add", "kick", "wait", "oops"
    type,           \* per caller: the event type of the call in progress, or "none"
    runnable,       \* per caller in wait_event: not sleeping
    uaf             \* an operation touched the session or vq outside its lifetime

dev_vars == <<has_feature, config_get, module_timeout>>
life_vars == <<probe_pc, probe_ret, session, priv, vq_exists, registered, dev_ready>>
tmo_vars == <<vwdt_timeout, wdd, cfg_timeout>>
vq_vars == <<vq_size, avail, used, notified, irq_pending>>
call_vars == <<pc, type, runnable>>
vars == <<dev_vars, life_vars, tmo_vars, vq_vars, call_vars, uaf>>

\* A buffer of the vq: the event type the submitting call stored in its evt,
\* and the stack frame that holds that evt: the caller whose send_event added
\* the buffer while that call runs, "released" once it has returned.
Buffer(c, t) == [frame |-> c, type |-> t]

Outstanding == Len(avail) + Len(used)

\* the session and its vq can be used: vwdt is allocated and vwdt->vq exists
Usable == session = "live" /\ vq_exists

InSendEvent(c) == pc[c] \in {"add", "kick", "wait"}

\* send_event returns: its stack frame, and with it evt, is released
ReleaseFrame(q, c) ==
    [i \in 1..Len(q) |->
        IF q[i].frame = c THEN [q[i] EXCEPT !.frame = "released"] ELSE q[i]]

Init ==
    /\ has_feature \in BOOLEAN
    /\ config_get \in BOOLEAN
    /\ module_timeout \in ModuleTimeouts
    /\ probe_pc = "unbound"
    /\ probe_ret = "none"
    /\ session = "none"
    /\ priv = "null"
    /\ vq_exists = FALSE
    /\ vq_size = 0
    /\ registered = FALSE
    /\ dev_ready = FALSE
    /\ vwdt_timeout = 0
    /\ wdd = [min_timeout |-> 0, max_timeout |-> 0, timeout |-> 0]
    /\ cfg_timeout = 0
    /\ avail = <<>>
    /\ used = <<>>
    /\ notified = FALSE
    /\ irq_pending = FALSE
    /\ pc = [c \in Callers |-> "idle"]
    /\ type = [c \in Callers |-> "none"]
    /\ runnable = [c \in Callers |-> FALSE]
    /\ uaf = FALSE

(***************************************************************************)
(* The watchdog core (caller side of the registered operations).           *)
(***************************************************************************)

\* watchdog_timeout_invalid(): t is outside the limits the driver registered
watchdog_timeout_invalid(w, t) ==
    t < w.min_timeout \/ (w.max_timeout # 0 /\ t > w.max_timeout)

\* watchdog_init_timeout(wdd, timeout_parm, NULL): a valid non-zero parameter
\* replaces wdd->timeout, anything else leaves the preset default
watchdog_init_timeout(w, parm) ==
    IF parm # 0 /\ ~watchdog_timeout_invalid(w, parm)
    THEN [w EXCEPT !.timeout = parm]
    ELSE w

(***************************************************************************)
(* virtwdt_probe (lines 148-205)                                           *)
(***************************************************************************)

\* mutant of probe_precheck: the config-access check is missing
probe_precheck_no_config_check(feature, get) ==
    IF ~feature THEN "ENODEV" ELSE "OK"

\* lines 153-160: the checks made before anything is acquired
probe_precheck(feature, get) ==
    IF ~feature THEN "ENODEV"
    ELSE IF ~get THEN "EINVAL"
    ELSE "OK"

\* mutant of virtwdt_wdd_preset: max_timeout is left at its kzalloc'ed zero
virtwdt_wdd_preset_no_max ==
    [min_timeout |-> VIRTIO_WATCHDOG_HEARTBEAT_TIMEOUT_MIN,
     max_timeout |-> 0,
     timeout     |-> VIRTIO_WATCHDOG_HEARTBEAT_TIMEOUT]

\* mutant of virtwdt_wdd_preset: wdd.timeout is left at its kzalloc'ed zero
virtwdt_wdd_preset_no_default ==
    [min_timeout |-> VIRTIO_WATCHDOG_HEARTBEAT_TIMEOUT_MIN,
     max_timeout |-> VIRTIO_WATCHDOG_HEARTBEAT_TIMEOUT_MAX,
     timeout     |-> 0]

\* lines 177-181: the limits and default the driver presets in vwdt->wdd
virtwdt_wdd_preset ==
    [min_timeout |-> VIRTIO_WATCHDOG_HEARTBEAT_TIMEOUT_MIN,
     max_timeout |-> VIRTIO_WATCHDOG_HEARTBEAT_TIMEOUT_MAX,
     timeout     |-> VIRTIO_WATCHDOG_HEARTBEAT_TIMEOUT]

\* lines 153-160
probe_check ==
    /\ probe_pc = "unbound"
    /\ LET r == probe_precheck(has_feature, config_get) IN
         IF r = "OK"
         THEN /\ probe_pc' = "alloc"
              /\ probe_ret' = probe_ret
         ELSE /\ probe_pc' = "failed"
              /\ probe_ret' = r
    /\ UNCHANGED <<session, priv, vq_exists, registered, dev_ready>>
    /\ UNCHANGED <<dev_vars, tmo_vars, vq_vars, call_vars, uaf>>

\* lines 162-168: vdev->priv = vwdt = kzalloc(); kzalloc may fail
probe_alloc ==
    /\ probe_pc = "alloc"
    /\ \E ok \in BOOLEAN :
         IF ok
         THEN /\ session' = "live"
              /\ priv' = "vwdt"
              /\ vwdt_timeout' = VIRTIO_WATCHDOG_HEARTBEAT_TIMEOUT
              /\ probe_pc' = "init_vq"
              /\ probe_ret' = probe_ret
         ELSE /\ session' = session
              /\ priv' = "null"
              /\ vwdt_timeout' = vwdt_timeout
              /\ probe_pc' = "failed"
              /\ probe_ret' = "ENOMEM"
    /\ UNCHANGED <<vq_exists, registered, dev_ready, wdd, cfg_timeout>>
    /\ UNCHANGED <<dev_vars, vq_vars, call_vars, uaf>>

\* lines 64-77: virtio_find_single_vq may fail; every failure becomes -ENOMEM.
\* The queue it finds has the number of descriptors the device offers.
virtwdt_init_vq(ok) ==
    /\ vq_exists' = ok
    /\ IF ok THEN vq_size' \in 1..QueueSize ELSE vq_size' = 0
    /\ avail' = <<>>
    /\ used' = <<>>

\* lines 170-174
probe_init_vq ==
    /\ probe_pc = "init_vq"
    /\ \E ok \in BOOLEAN :
         /\ virtwdt_init_vq(ok)
         /\ IF ok
            THEN probe_pc' = "register" /\ probe_ret' = probe_ret
            ELSE probe_pc' = "free" /\ probe_ret' = "ENOMEM"
    /\ UNCHANGED <<session, priv, registered, dev_ready, notified, irq_pending>>
    /\ UNCHANGED <<dev_vars, tmo_vars, call_vars, uaf>>

\* lines 176-190: preset wdd, resolve the module parameter, register
probe_register ==
    /\ probe_pc = "register"
    /\ wdd' = watchdog_init_timeout(virtwdt_wdd_preset, module_timeout)
    /\ \E ok \in BOOLEAN :
         IF ok
         THEN registered' = TRUE /\ probe_pc' = "ready" /\ probe_ret' = probe_ret
         ELSE registered' = FALSE /\ probe_pc' = "free_dev" /\ probe_ret' = "EREG"
    /\ UNCHANGED <<session, priv, vq_exists, dev_ready, vwdt_timeout, cfg_timeout>>
    /\ UNCHANGED <<dev_vars, vq_vars, call_vars, uaf>>

\* lines 195-197: virtio_device_ready(vdev); return 0
probe_ready ==
    /\ probe_pc = "ready"
    /\ dev_ready' = TRUE
    /\ probe_pc' = "bound"
    /\ probe_ret' = "0"
    /\ UNCHANGED <<session, priv, vq_exists, registered>>
    /\ UNCHANGED <<dev_vars, tmo_vars, vq_vars, call_vars, uaf>>

\* virtio_reset_device(): the device stops using the rings and interrupting
virtio_reset_device ==
    /\ dev_ready' = FALSE
    /\ notified' = FALSE
    /\ irq_pending' = FALSE

\* lines 57-62: del_vqs() destroys the event queue and the buffers in it
virtwdt_del_vq ==
    /\ vq_exists' = FALSE
    /\ vq_size' = 0
    /\ avail' = <<>>
    /\ used' = <<>>

\* line 200 (label free_dev)
probe_free_dev_reset ==
    /\ probe_pc = "free_dev"
    /\ virtio_reset_device
    /\ probe_pc' = "free_dev_del_vq"
    /\ UNCHANGED <<probe_ret, session, priv, vq_exists, vq_size, registered, avail, used>>
    /\ UNCHANGED <<dev_vars, tmo_vars, call_vars, uaf>>

\* mutant of probe_free_dev_del_vq: the unwinding forgets to delete the vq
probe_free_dev_skip_del_vq ==
    /\ probe_pc = "free_dev_del_vq"
    /\ probe_pc' = "free"
    /\ UNCHANGED <<probe_ret, session, priv, vq_exists, registered, dev_ready>>
    /\ UNCHANGED <<dev_vars, tmo_vars, vq_vars, call_vars, uaf>>

\* line 201
probe_free_dev_del_vq ==
    /\ probe_pc = "free_dev_del_vq"
    /\ virtwdt_del_vq
    /\ probe_pc' = "free"
    /\ UNCHANGED <<probe_ret, session, priv, registered, dev_ready, notified, irq_pending>>
    /\ UNCHANGED <<dev_vars, tmo_vars, call_vars, uaf>>

\* lines 202-204 (label free): kfree(vwdt); return err.  vdev->priv is left as is
probe_free ==
    /\ probe_pc = "free"
    /\ session' = "freed"
    /\ probe_pc' = "failed"
    /\ UNCHANGED <<probe_ret, priv, vq_exists, registered, dev_ready>>
    /\ UNCHANGED <<dev_vars, tmo_vars, vq_vars, call_vars, uaf>>

virtwdt_probe ==
    \/ probe_check
    \/ probe_alloc
    \/ probe_init_vq
    \/ probe_register
    \/ probe_ready
    \/ probe_free_dev_reset
    \/ probe_free_dev_del_vq
    \/ probe_free

(***************************************************************************)
(* virtwdt_remove (lines 207-217)                                          *)
(***************************************************************************)

\* line 214
remove_reset ==
    /\ probe_pc = "bound"
    /\ virtio_reset_device
    /\ probe_pc' = "remove_del_vq"
    /\ UNCHANGED <<probe_ret, session, priv, vq_exists, vq_size, registered, avail, used>>
    /\ UNCHANGED <<dev_vars, tmo_vars, call_vars, uaf>>

\* mutant of remove_del_vq: the queue is not deleted before the session is freed
remove_skip_del_vq ==
    /\ probe_pc = "remove_del_vq"
    /\ probe_pc' = "remove_kfree"
    /\ UNCHANGED <<probe_ret, session, priv, vq_exists, registered, dev_ready>>
    /\ UNCHANGED <<dev_vars, tmo_vars, vq_vars, call_vars, uaf>>

\* line 215
remove_del_vq ==
    /\ probe_pc = "remove_del_vq"
    /\ virtwdt_del_vq
    /\ probe_pc' = "remove_kfree"
    /\ UNCHANGED <<probe_ret, session, priv, registered, dev_ready, notified, irq_pending>>
    /\ UNCHANGED <<dev_vars, tmo_vars, call_vars, uaf>>

\* line 216: kfree(vwdt).  The watchdog device is not unregistered
remove_kfree ==
    /\ probe_pc = "remove_kfree"
    /\ session' = "freed"
    /\ probe_pc' = "removed"
    /\ UNCHANGED <<probe_ret, priv, vq_exists, registered, dev_ready>>
    /\ UNCHANGED <<dev_vars, tmo_vars, vq_vars, call_vars, uaf>>

virtwdt_remove ==
    \/ remove_reset
    \/ remove_del_vq
    \/ remove_kfree

(***************************************************************************)
(* The watchdog operations (lines 79-133).  The watchdog core calls them   *)
(* through virtwdt_ops for as long as the watchdog device is registered.   *)
(***************************************************************************)

\* mutant of waits_for_ack: every event waits for its buffer
waits_for_ack_always(t) == TRUE

\* line 95: send_event waits for the buffer unless the event is a heartbeat
waits_for_ack(t) == t # "HEARTBEAT"

\* A caller enters send_event(vwdt, t): lines 79-86 build evt and sg
send_event_enter(c, t) ==
    /\ pc[c] = "idle"
    /\ registered
    /\ pc' = [pc EXCEPT ![c] = "add"]
    /\ type' = [type EXCEPT ![c] = t]
    /\ UNCHANGED <<runnable, uaf>>
    /\ UNCHANGED <<dev_vars, life_vars, tmo_vars, vq_vars>>

\* lines 100-106
virtwdt_ping(c) == send_event_enter(c, "HEARTBEAT")

\* lines 108-114
virtwdt_start(c) == send_event_enter(c, "ENABLE")

\* lines 116-122
virtwdt_stop(c) == send_event_enter(c, "DISABLE")

\* line 91: virtqueue_add_outbuf(); with no free descriptor it returns -ENOSPC
\* and adds nothing, and send_event ignores the return value
virtqueue_add_outbuf(c) ==
    IF Outstanding < vq_size
    THEN avail' = Append(avail, Buffer(c, type[c]))
    ELSE avail' = avail

send_event_add(c) ==
    /\ pc[c] = "add"
    /\ Usable
    /\ virtqueue_add_outbuf(c)
    /\ pc' = [pc EXCEPT ![c] = "kick"]
    /\ UNCHANGED <<type, runnable, uaf, vq_size, used, notified, irq_pending>>
    /\ UNCHANGED <<dev_vars, life_vars, tmo_vars>>

\* lines 92-95: virtqueue_kick(); a heartbeat returns here, the other events
\* go on to wait_event.  A kick sent before DRIVER_OK may or may not reach
\* the device.
send_event_kick(c) ==
    /\ pc[c] = "kick"
    /\ Usable
    /\ \E seen \in BOOLEAN :
         /\ (dev_ready => seen)
         /\ notified' = (notified \/ (seen /\ avail # <<>>))
    /\ IF waits_for_ack(type[c])
       THEN /\ pc' = [pc EXCEPT ![c] = "wait"]
            /\ type' = type
            /\ runnable' = [runnable EXCEPT ![c] = TRUE]
            /\ avail' = avail
            /\ used' = used
       ELSE /\ pc' = [pc EXCEPT ![c] = "idle"]
            /\ type' = [type EXCEPT ![c] = "none"]
            /\ runnable' = runnable
            /\ avail' = ReleaseFrame(avail, c)
            /\ used' = ReleaseFrame(used, c)
    /\ UNCHANGED <<uaf, vq_size, irq_pending>>
    /\ UNCHANGED <<dev_vars, life_vars, tmo_vars>>

\* line 96: wait_event(evt_acked, virtqueue_get_buf(vq, &len)).  The condition
\* is evaluated with the task already on the wait queue: it takes the first
\* used buffer if there is one and returns, otherwise the task sleeps until
\* the next wake_up.
send_event_wait(c) ==
    /\ pc[c] = "wait"
    /\ Usable
    /\ runnable[c]
    /\ IF used # <<>>
       THEN /\ used' = ReleaseFrame(Tail(used), c)
            /\ avail' = ReleaseFrame(avail, c)
            /\ pc' = [pc EXCEPT ![c] = "idle"]
            /\ type' = [type EXCEPT ![c] = "none"]
            /\ runnable' = [runnable EXCEPT ![c] = FALSE]
       ELSE /\ used' = used
            /\ avail' = avail
            /\ pc' = pc
            /\ type' = type
            /\ runnable' = [runnable EXCEPT ![c] = FALSE]
    /\ UNCHANGED <<uaf, vq_size, notified, irq_pending>>
    /\ UNCHANGED <<dev_vars, life_vars, tmo_vars>>

\* A step of send_event made after the vq was deleted or vwdt was freed reads
\* vwdt->vq or the vq's memory after its lifetime: the call returns or oopses.
\* A caller asleep in wait_event stays asleep: nothing wakes it any more.
send_event_stale(c) ==
    /\ InSendEvent(c)
    /\ ~Usable
    /\ pc[c] = "wait" => runnable[c]
    /\ uaf' = TRUE
    /\ \E next \in {"idle", "oops"} : pc' = [pc EXCEPT ![c] = next]
    /\ runnable' = [runnable EXCEPT ![c] = FALSE]
    /\ type' = [type EXCEPT ![c] = "none"]
    /\ UNCHANGED <<dev_vars, life_vars, tmo_vars, vq_vars>>

send_event(c) ==
    \/ send_event_add(c)
    \/ send_event_kick(c)
    \/ send_event_wait(c)
    \/ send_event_stale(c)

\* lines 124-133: virtio_cwrite() of the config field; nothing else is written
virtwdt_set_timeout(c, new_timeout) ==
    /\ cfg_timeout' = new_timeout
    /\ UNCHANGED <<vwdt_timeout, wdd>>

\* watchdog_set_timeout() of the watchdog core: a value outside the registered
\* limits is refused with -EINVAL before the driver's set_timeout is called
wdt_set_timeout(c, v) ==
    /\ pc[c] = "idle"
    /\ registered
    /\ session = "live"
    /\ IF watchdog_timeout_invalid(wdd, v)
       THEN UNCHANGED tmo_vars
       ELSE virtwdt_set_timeout(c, v)
    /\ UNCHANGED <<dev_vars, life_vars, vq_vars, call_vars, uaf>>

\* set_timeout called through the registration that outlives the freed
\* session: the limits and vwdt->vdev are read from freed memory, so any value
\* may pass the check and reach the config field, or the call oopses
wdt_set_timeout_stale(c) ==
    /\ pc[c] = "idle"
    /\ registered
    /\ session = "freed"
    /\ uaf' = TRUE
    /\ \E next \in {"idle", "oops"} : pc' = [pc EXCEPT ![c] = next]
    /\ \E v \in TimeoutInputs \cup {cfg_timeout} : cfg_timeout' = v
    /\ UNCHANGED <<type, runnable, vwdt_timeout, wdd>>
    /\ UNCHANGED <<dev_vars, life_vars, vq_vars>>

(***************************************************************************)
(* The device side of the event queue                                      *)
(***************************************************************************)

\* The device takes the next available buffer, reads the event and returns
\* the buffer through the used ring, raising the queue's interrupt.
device_use_buffer ==
    /\ vq_exists
    /\ dev_ready
    /\ notified
    /\ avail # <<>>
    /\ used' = Append(used, Head(avail))
    /\ avail' = Tail(avail)
    /\ notified' = (Tail(avail) # <<>>)
    /\ irq_pending' = TRUE
    /\ UNCHANGED <<dev_vars, life_vars, tmo_vars, call_vars, uaf, vq_size>>

\* lines 49-55: the vq callback: wake_up(&vwdt->evt_acked)
handle_event ==
    /\ vq_exists
    /\ irq_pending
    /\ irq_pending' = FALSE
    /\ runnable' = [c \in Callers |-> IF pc[c] = "wait" THEN TRUE ELSE runnable[c]]
    /\ UNCHANGED <<pc, type, uaf, vq_size, avail, used, notified>>
    /\ UNCHANGED <<dev_vars, life_vars, tmo_vars>>

Next ==
    \/ virtwdt_probe
    \/ virtwdt_remove
    \/ \E c \in Callers : virtwdt_ping(c)
    \/ \E c \in Callers : virtwdt_start(c)
    \/ \E c \in Callers : virtwdt_stop(c)
    \/ \E c \in Callers : send_event(c)
    \/ \E c \in Callers, v \in TimeoutInputs : wdt_set_timeout(c, v)
    \/ \E c \in Callers : wdt_set_timeout_stale(c)
    \/ device_use_buffer
    \/ handle_event

Spec == Init /\ [][Next]_vars

\* Scheduling for the termination claims: a caller inside send_event keeps
\* running (lines 90-97), the device keeps serving a notified queue and its
\* interrupt is delivered to handle_event (lines 49-55); a probe or a remove
\* that has begun runs to its end.  Nothing obliges the watchdog core to make
\* further calls or the bus to begin a remove.  A waiter that is runnable
\* again and again while a used buffer is there is not outrun for ever by the
\* other callers: it gets to take a buffer.
FairSpec ==
    /\ Spec
    /\ \A c \in Callers : SF_vars(send_event_wait(c) /\ pc'[c] = "idle")
    /\ WF_vars(virtwdt_probe)
    /\ WF_vars(remove_del_vq)
    /\ WF_vars(remove_kfree)
    /\ \A c \in Callers : WF_vars(send_event(c))
    /\ WF_vars(device_use_buffer)
    /\ WF_vars(handle_event)

(***************************************************************************)
(* Properties                                                              *)
(***************************************************************************)

TimeoutRange ==
    VIRTIO_WATCHDOG_HEARTBEAT_TIMEOUT_MIN..VIRTIO_WATCHDOG_HEARTBEAT_TIMEOUT_MAX

\* C1: on an attached session at most one submitted buffer is outstanding on
\* the event queue (added by send_event and not yet taken back by
\* virtqueue_get_buf), whatever the interleaving of start, stop and ping.
C1_AtMostOneOutstanding == Usable => Outstanding <= 1

\* C2: a start or stop call returns from its wait only by reclaiming the
\* buffer that this same call submitted, never a buffer of another call.
C2_WaitEndsOnOwnBuffer ==
    [][\A c \in Callers :
         (Usable /\ pc[c] = "wait" /\ pc'[c] = "idle")
            => (used # <<>> /\ Head(used).frame = c)]_vars

\* C3: ping never suspends: a heartbeat call is never in the wait, each of
\* its steps can be taken whatever the state of the queue and of the device,
\* and its kick step returns; set_timeout can always be taken and completes
\* in one step, without using the queue.
C3_PingNeverSuspends ==
    /\ [](\A c \in Callers :
            (Usable /\ InSendEvent(c) /\ type[c] = "HEARTBEAT")
               => (pc[c] # "wait" /\ ENABLED send_event(c)))
    /\ [](\A c \in Callers, v \in TimeoutInputs :
            (pc[c] = "idle" /\ registered /\ session = "live")
               => ENABLED wdt_set_timeout(c, v))
    /\ [][\A c \in Callers :
            (Usable /\ pc[c] = "kick" /\ type[c] = "HEARTBEAT" /\ pc'[c] # "kick")
               => pc'[c] = "idle"]_vars
    /\ [][\A c \in Callers, v \in TimeoutInputs :
            wdt_set_timeout(c, v) => (pc'[c] = "idle" /\ UNCHANGED vq_vars)]_vars

\* C3 witness: a ping has returned while the buffer it submitted is still
\* with the device (not returned).
C3_Witness ==
    /\ Usable
    /\ \E i \in 1..Len(avail) : avail[i].type = "HEARTBEAT" /\ avail[i].frame = "released"

\* C4: at most one caller at a time is between send_event's submission and
\* its return (has added its buffer and has not yet returned).
C4_OneCallerInSubmitSection ==
    Usable => Cardinality({c \in Callers : pc[c] \in {"kick", "wait"}}) <= 1

\* C5: every submission finds a free slot in the event queue.
C5_SubmissionFindsFreeSlot ==
    [][\A c \in Callers :
         (Usable /\ pc[c] = "add" /\ pc'[c] = "kick") => Outstanding < vq_size]_vars

\* C6: a control operation is never invoked before the queue is created nor
\* after virtwdt_remove has destroyed the queue and freed the session.
C6_OpsOnlyWhileAttached ==
    [][\A c \in Callers :
         (pc[c] = "idle" /\ pc'[c] # "idle")
            => /\ probe_pc \notin {"unbound", "alloc", "init_vq"}
               /\ ~(probe_pc = "removed" /\ session = "freed" /\ ~vq_exists)]_vars

\* C7 (as claimed): after a failed attach no queue exists, the session is
\* not allocated, the watchdog is not registered and no reference to the
\* session remains, vdev->priv included.
C7_FailedProbeLeavesNoReference ==
    probe_pc = "failed"
       => (~vq_exists /\ session # "live" /\ ~registered /\ priv = "null")

\* C7 (amended): after a failed attach no queue exists, the session memory
\* is freed or was never allocated, the watchdog is not registered, and the
\* session is never freed while the queue still exists; vdev->priv is not
\* cleared: it holds the stale address exactly when the session was
\* allocated and then freed.
C7_FailedProbeReleasesAll ==
    /\ probe_pc = "failed"
          => /\ ~vq_exists
             /\ session \in {"none", "freed"}
             /\ ~registered
             /\ ~dev_ready
             /\ (priv = "vwdt") <=> (session = "freed")
    /\ (probe_pc \in {"free_dev", "free_dev_del_vq", "free", "failed"} /\ session = "freed")
          => ~vq_exists

\* C7 witness: the attach failed at the last stage (registration), after the
\* queue had been created, and has finished unwinding.
C7_Witness == probe_pc = "failed" /\ probe_ret = "EREG" /\ session = "freed"

\* C8: when the device lacks the version feature or config access is
\* unavailable, attach fails (-ENODEV, -EINVAL) before a session is
\* allocated or a queue created, and leaves the state as it was.
C8_PrecheckFailureChangesNothing ==
    /\ (~has_feature \/ ~config_get)
          => /\ probe_pc \in {"unbound", "failed"}
             /\ session = "none" /\ priv = "null"
             /\ ~vq_exists /\ ~registered /\ ~dev_ready
             /\ vwdt_timeout = 0 /\ cfg_timeout = 0 /\ wdd.timeout = 0
             /\ vq_size = 0 /\ avail = <<>> /\ used = <<>>
             /\ ~uaf
    /\ (probe_pc = "failed" /\ ~has_feature) => probe_ret = "ENODEV"
    /\ (probe_pc = "failed" /\ has_feature /\ ~config_get) => probe_ret = "EINVAL"

\* C8 witness: an attach refused because config access is unavailable.
C8_Witness == probe_pc = "failed" /\ probe_ret = "EINVAL" /\ ~config_get

\* C9: on a live session set_timeout(v) with v outside [1, 600] changes
\* neither the config field nor a timeout of the session, and whatever value
\* these take while the session is live is in [1, 600].
C9_OnlyInRangeCommitted ==
    /\ [][\A c \in Callers, v \in TimeoutInputs \ TimeoutRange :
            wdt_set_timeout(c, v) => UNCHANGED tmo_vars]_vars
    /\ [][session' = "live" =>
            /\ (cfg_timeout' # cfg_timeout => cfg_timeout' \in TimeoutRange)
            /\ (vwdt_timeout' # vwdt_timeout => vwdt_timeout' \in TimeoutRange)
            /\ (wdd'.timeout # wdd.timeout => wdd'.timeout \in TimeoutRange)]_vars

\* C9 witness: set_timeout has committed the largest value of the range.
C9_Witness == session = "live" /\ cfg_timeout = VIRTIO_WATCHDOG_HEARTBEAT_TIMEOUT_MAX

\* C10: a set_timeout(v) that succeeds leaves both the config field and the
\* session's cached timeout equal to v.
C10_SetTimeoutUpdatesCache ==
    [][\A c \in Callers, v \in TimeoutInputs :
         (wdt_set_timeout(c, v) /\ ~watchdog_timeout_invalid(wdd, v))
            => (cfg_timeout' = v /\ vwdt_timeout' = v)]_vars

\* C11: after a successful attach, while the session is allocated, its
\* timeout (vwdt->timeout and wdd.timeout) lies in [1, 600]; it is 30 when no
\* module parameter is supplied, and a module parameter outside [1, 600]
\* never becomes the timeout.
C11_TimeoutInRange ==
    (probe_ret = "0" /\ session = "live")
       => /\ vwdt_timeout \in TimeoutRange
          /\ wdd.timeout \in TimeoutRange
          /\ module_timeout = 0
                => /\ vwdt_timeout = VIRTIO_WATCHDOG_HEARTBEAT_TIMEOUT
                   /\ wdd.timeout = VIRTIO_WATCHDOG_HEARTBEAT_TIMEOUT
          /\ module_timeout \notin TimeoutRange
                => (wdd.timeout # module_timeout /\ vwdt_timeout # module_timeout)

\* C11 witness: attached with a module parameter above the range, after a
\* set_timeout has been accepted.
C11_Witness ==
    /\ probe_ret = "0" /\ session = "live"
    /\ module_timeout > VIRTIO_WATCHDOG_HEARTBEAT_TIMEOUT_MAX
    /\ cfg_timeout = VIRTIO_WATCHDOG_HEARTBEAT_TIMEOUT_MIN

\* C12: each operation submits exactly the message its contract names: a
\* start enters send_event with ENABLE, a stop with DISABLE, a ping with
\* HEARTBEAT; the call's add step appends exactly that one buffer and no
\* other step of the call adds a buffer; set_timeout leaves the queue as it
\* is; every call that returns on a usable session returns normally.
C12_EachCallSubmitsItsMessage ==
    /\ [][\A c \in Callers :
            /\ virtwdt_start(c) => type'[c] = "ENABLE"
            /\ virtwdt_stop(c) => type'[c] = "DISABLE"
            /\ virtwdt_ping(c) => type'[c] = "HEARTBEAT"]_vars
    /\ [][\A c \in Callers :
            (Usable /\ pc[c] = "add" /\ pc'[c] = "kick")
               => avail' = Append(avail, Buffer(c, type[c]))]_vars
    /\ [][\A c \in Callers :
            (Usable /\ (send_event_kick(c) \/ send_event_wait(c)))
               => (Len(avail') <= Len(avail) /\ pc'[c] # "oops")]_vars
    /\ [][\A c \in Callers, v \in TimeoutInputs :
            wdt_set_timeout(c, v) => UNCHANGED <<avail, used>>]_vars

\* C13: virtwdt_remove resets the device, then deletes the queue, then
\* frees the session: each step follows the previous one, none is skipped,
\* none can fail or be held up by outstanding buffers or blocked callers,
\* and the session is never freed while the queue exists.
C13_RemoveOrder ==
    /\ [](probe_pc = "bound" => ENABLED remove_reset)
    /\ [](probe_pc = "remove_del_vq"
             => (~dev_ready /\ vq_exists /\ session = "live" /\ ENABLED remove_del_vq))
    /\ [](probe_pc = "remove_kfree"
             => (~dev_ready /\ ~vq_exists /\ session = "live" /\ ENABLED remove_kfree))
    /\ [](probe_pc = "removed" => (~dev_ready /\ ~vq_exists /\ session = "freed"))
    /\ [](session = "freed" => ~vq_exists)
    /\ [][(probe_pc = "bound" /\ probe_pc' # "bound") => probe_pc' = "remove_del_vq"]_vars
    /\ [][(probe_pc = "remove_del_vq" /\ probe_pc' # probe_pc)
             => probe_pc' = "remove_kfree"]_vars
    /\ [][(probe_pc = "remove_kfree" /\ probe_pc' # probe_pc)
             => probe_pc' = "removed"]_vars

\* C13 witness: the removal has completed although a start or stop caller
\* was blocked in its wait.
C13_Witness ==
    /\ probe_pc = "removed" /\ session = "freed"
    /\ \E c \in Callers : pc[c] = "wait" /\ ~runnable[c]

\* C14: no call returns while a buffer it submitted is still owned by the
\* device: every buffer the device has yet to read points to an evt whose
\* stack frame is still in use.
C14_MessageMemoryValid ==
    Usable => \A i \in 1..Len(avail) : avail[i].frame # "released"

\* C17: no start, stop or ping adds a buffer to the event queue before
\* virtwdt_probe has executed virtio_device_ready.
C17_NoSubmitBeforeReady ==
    [][\A c \in Callers :
         (Usable /\ pc[c] = "add" /\ pc'[c] = "kick") => probe_pc # "ready"]_vars

\* C15: buffer accounting on a usable session.  The count of buffers
\* submitted and not reclaimed moves only as the claim's equation needs:
\* every call adds one buffer at its add step, a ping returns without
\* reclaiming, a start or stop reclaims exactly one buffer when its wait ends,
\* and nothing else (handle_event, the device) changes the count; so it
\* equals the completed pings plus the start/stop calls still waiting.
C15_BufferAccounting ==
    /\ [][\A c \in Callers :
            (Usable /\ pc[c] = "add" /\ pc'[c] = "kick")
               => Outstanding' = Outstanding + 1]_vars
    /\ [][\A c \in Callers :
            (Usable /\ pc[c] = "kick" /\ pc'[c] # "kick")
               => Outstanding' = Outstanding]_vars
    /\ [][\A c \in Callers :
            (Usable /\ pc[c] = "wait" /\ pc'[c] = "idle")
               => (type[c] # "HEARTBEAT" /\ Outstanding' = Outstanding - 1)]_vars
    /\ [][(Usable /\ Usable' /\ Outstanding' < Outstanding)
            => \E c \in Callers : pc[c] = "wait" /\ pc'[c] = "idle"]_vars
    /\ [][(handle_event \/ device_use_buffer) => Outstanding' = Outstanding]_vars

\* the device has returned every buffer submitted to it
AllReturned == avail = <<>>

\* C16: no lost wake-up: if the device keeps returning every submitted buffer
\* (and, by FairSpec, its interrupt reaches handle_event), every start or stop
\* call that waits on a usable session eventually returns.
C16_StartStopReturns ==
    ([]<>AllReturned) =>
        \A c \in Callers :
            (Usable /\ pc[c] = "wait") ~> (pc[c] # "wait" \/ ~Usable)

====
